---- MODULE Spec2Model ----
(***************************************************************************)
(* Model of the PixCap asset scripts:                                      *)
(*   "scraper"  src/index.js lines 1-435     catalogue scraper             *)
(*   "direct"   src/index.js lines 546-842   direct downloader             *)
(*   "find"     src/find-items.js            item finder and downloader    *)
(* Each script is one async main path (pc) on the node event loop plus the *)
(* asynchronous 'response' handlers that puppeteer starts for every        *)
(* listener registered on the page.  Handlers and network events run only  *)
(* while the main path is suspended at an await.                           *)
(***************************************************************************)
EXTENDS Integers, Sequences, FiniteSets, TLC

\* ------------------------------------------------------------------ bounds
MaxResponses == 1
MaxRuns == 2

\* ------------------------------------------------------------- value sets
Scripts == {"scraper", "direct", "find"}
SlugA == <<"a">>
SlugB == <<"b">>
Slugs == {SlugA, SlugB}
Ids == {<<"1">>, <<"2">>}
NoId == <<>>
\* Body of a resolution response: a signed URL with contentType
\* model/gltf-binary, a signed URL with another contentType, no signed URL.
Bodies == {"url", "urlother", "nourl"}
EmptyMap == [s \in {} |-> NoId]

\* The item lists a run iterates over.
ItemLists == {<<SlugA>>, <<SlugA, SlugB>>, <<SlugA, SlugA>>}

VARIABLES
    script,        \* which script is running
    run,           \* number of the current run against the same output directory
    items,         \* iconSlugs / ICON_SLUGS / packItemUrls of the loop
    idx,           \* 1-based position of the loop in items
    pc,            \* position of the main path
    listeners,     \* 'response' listeners registered on the page (by item index)
    inflight,      \* started handler invocations that have not finished
    nresp,         \* resolution responses the page has produced in this run
    files,         \* names of the files in the destination directory
    slugToUuidMap, \* in-memory slug -> uuid map (scraper); allItems keys (find)
    mappingFile,   \* the mapping file on disk
    presigned,     \* find: the presignedUrl variable of each downloadGlbFile call
    sec,           \* direct: uuid used by the secondary resolution on the main path
    allItems,      \* find: slugs that are keys of the in-memory allItems object
    itemsFile,     \* find: slugs that are keys of all-items.json on disk
    navIssued,     \* item indexes whose resolution-trigger navigation was issued
    fetches,       \* binary fetches issued: [item, src, id]
    stored,        \* successful stores: [slug, id]
    failed,        \* slugs whose binary fetch failed
    obtained,      \* slugs for which a response with a signed URL was obtained
    handled,       \* slugs for which the body of a response was parsed
    catalog,       \* find: the pack listing, one sequence of anchors per page
    cpage,         \* find: the listing page the browser shows
    cpc,           \* find: position of the pagination loop
    allPackUrls,   \* find: the pack paths collected so far
    navFailed,     \* find: the listing's waitForNavigation was seen to reject
    packIdx,       \* find: 1-based position of the pack loop in allPackUrls
    packPage,      \* find: the anchors of the pack page the browser shows
    packCurrentPage, \* find: page number inside the pack
    packItemUrls,  \* find: the item paths collected for the pack
    itemIdx,       \* find: 1-based position of the item loop in packItemUrls
    packsVisited,  \* pack paths whose page navigation was issued, in order
    itemsTried,    \* item paths of the pack handed to downloadGlbFile, in order
    packFailedAt,  \* position of the first pack whose processing threw (0: none)
    browser,       \* the browsing session launched by the run: "open" / "closed"
    packName,      \* find: the title read from the pack page
    packFolder,    \* find: the directory main created for the pack
    dirs,          \* find: the directories that exist under DOWNLOAD_DIR
    placed,        \* find: the files written under DOWNLOAD_DIR: [dir, name]
    pageUrl,       \* direct: what page.url() returns
    outcome,       \* how the resolution of each item of the run ended
    cause,         \* the item whose navigation produced each response
    spc,           \* scraper: position of main before and between the icons
    listing,       \* scraper: the anchors of the icon packs page
    packUrls,      \* scraper: const packUrls
    packNo,        \* scraper: index of the pack the for loop is at
    dom,           \* scraper: the pack page that is loaded
    iconSlugs,     \* scraper: const iconSlugs
    iconNo,        \* scraper: index of the icon the for loop is at
    packsDone,     \* scraper: the pack urls navigated to
    captured       \* scraper: [url, iconUuid] of the responses a handler took

vars == <<script, run, items, idx, pc, listeners, inflight, nresp, files,
          slugToUuidMap, mappingFile, presigned, sec, allItems, itemsFile,
          navIssued, fetches, stored, failed, obtained, handled,
          catalog, cpage, cpc, allPackUrls, navFailed, packIdx, packPage,
          packCurrentPage, packItemUrls, itemIdx, packsVisited, itemsTried,
          packFailedAt, browser, packName, packFolder, dirs, placed,
          pageUrl, outcome, cause, spc, listing, packUrls, packNo, dom, iconSlugs,
          iconNo, packsDone, captured>>

packState == <<packIdx, packPage, packCurrentPage, packItemUrls, itemIdx,
               packsVisited, itemsTried, packFailedAt>>
outState == <<packName, packFolder, dirs, placed>>
scrapeState == <<spc, listing, packUrls, packNo, dom, iconSlugs, iconNo,
                 packsDone, captured>>
crawlVars == <<catalog, cpage, cpc, allPackUrls, navFailed, packState, outState,
               scrapeState>>
crawlState == <<crawlVars, browser>>
conf == <<script, run, items>>
findState == <<presigned, allItems, itemsFile>>

\* ------------------------------------------------------------ pure helpers
StartsWith(name, prefix) ==
    /\ Len(name) >= Len(prefix)
    /\ SubSeq(name, 1, Len(prefix)) = prefix

EndsWith(name, suffix) ==
    /\ Len(name) >= Len(suffix)
    /\ SubSeq(name, Len(name) - Len(suffix) + 1, Len(name)) = suffix

Sep == <<"_", "_">>
Ext == <<".", "g", "l", "b">>

\* `${iconSlug}__${iconUuid}.glb`
GlbName(slug, id) == slug \o Sep \o id \o Ext

\* `${itemSlug}.glb`
FindName(slug) == slug \o Ext

\* Mutant of FileExists: the directory listing is never matched.
FileExistsNever(fs, slug) == FALSE

\* possibleFilenames.some(f => f.startsWith(iconSlug + '__') && f.endsWith('.glb'))
FileExists(fs, slug) ==
    \E f \in fs : StartsWith(f, slug \o Sep) /\ EndsWith(f, Ext)

\* mappings[iconSlug] = iconUuid ; slugToUuidMap.set(iconSlug, iconUuid)
MapSet(m, slug, id) ==
    [s \in (DOMAIN m) \cup {slug} |-> IF s = slug THEN id ELSE m[s]]

Slug(i) == items[i]

\* The main path is suspended at an await: the event loop may run handlers.
AwaitPcs == {"goto", "nav2", "wait", "sec", "scan", "dl", "dlmap", "done"}
AtAwait == pc \in AwaitPcs

\* Mutant of AddListener: the listener is not yet registered when page.on returns.
AddListenerLate(ls, i) == ls

\* page.on('response', handler)
AddListener(ls, i) == ls \cup {i}

\* page.removeListener('response', handler) ; page.off('response', handler)
RemoveListener(ls, i) == ls \ {i}

\* One started invocation of a listener's handler for one response.
Handler(rid, lst, id, body) ==
    [rid |-> rid, lst |-> lst, id |-> id, body |-> body, stage |-> "json",
     map |-> EmptyMap]

Advance(h, stage) == (inflight \ {h}) \cup {[h EXCEPT !.stage = stage]}

\* Mutant of HasSignedUrl: the signed-URL field is not tested.
HasSignedUrlUntested(h) == TRUE

\* if (responseData && responseData.presignedUrl)
HasSignedUrl(h) == h.body \in {"url", "urlother"}

\* if (data?.presignedUrl && data?.contentType === 'model/gltf-binary')
HasGlbUrl(h) == h.body = "url"

\* History: the slug's listener (or secondary fetch) obtained a signed URL.
Observe(o, slug, body) ==
    IF body \in {"url", "urlother"} THEN o \cup {slug} ELSE o

Fetch(item, src, id) == [item |-> item, src |-> src, id |-> id]
Store(slug, id) == [slug |-> slug, id |-> id]
\* The mapping file: absent, or present with content that JSON.parse accepts
\* (valid, the slug -> uuid object it holds is map) or rejects.
NoFile == [exists |-> FALSE, valid |-> TRUE, map |-> EmptyMap]
CorruptFile == [exists |-> TRUE, valid |-> FALSE, map |-> EmptyMap]
MapFile(m) == [exists |-> TRUE, valid |-> TRUE, map |-> m]

\* Mutant of CloseBrowser: the session is left as it is.
CloseBrowserNever(b) == b

\* finally { await browser.close() }
CloseBrowser(b) == "closed"

\* What page.url() can return: about:blank before the first navigation, the
\* trigger URL /design/create?slug=..., the editor URL /design/<uuid> the
\* trigger redirects to, or the login page.
Url(dir, rest) == [dir |-> dir, rest |-> rest]
BlankUrl == Url("about:blank", <<>>)
CreateUrl == Url("/design/", <<"c", "r", "e", "a", "t", "e", "?">>)
LoginUrl == Url("/login", <<>>)
DesignUrl(id) == Url("/design/", id)
PageUrls == {CreateUrl, LoginUrl} \cup {DesignUrl(id) : id \in Ids}

\* The characters of [a-f0-9-] (case-insensitive) that occur in the urls
HexChars == {"a", "b", "c", "d", "e", "f", "1", "2", "-"}

\* The longest prefix of [a-f0-9-] characters
RECURSIVE HexPrefix(_)
HexPrefix(cs) ==
    IF cs = <<>> \/ Head(cs) \notin HexChars THEN <<>>
    ELSE <<Head(cs)>> \o HexPrefix(Tail(cs))

\* currentUrl.match(/\/design\/([a-f0-9-]+)/i): the captured group, NoId
\* when the expression does not match
UrlMatch(u) ==
    IF u.dir = "/design/" /\ HexPrefix(u.rest) # <<>> THEN HexPrefix(u.rest)
    ELSE NoId

\* History: no response has been produced.
NoCause == [r \in {} |-> 0]

\* History: how the resolution of an item ended.
NoOutcome == [i \in {} |-> "Idle"]
SetOutcome(o, i, v) == [j \in (DOMAIN o) \cup {i} |-> IF j = i THEN v ELSE o[j]]

\* A resolution response for item i has reached its listener.
EventSeen(i) ==
    \/ \E f \in fetches : f.item = i
    \/ \E h \in inflight : h.lst = i

\* A pack page without anchors.
EmptyPage == [direct |-> <<>>, comp |-> <<>>, cards |-> <<>>, tags |-> <<>>]

\* The pack loop of find-items.js has not begun.
PackLoopIdle ==
    /\ packIdx = 0
    /\ packPage = EmptyPage
    /\ packCurrentPage = 0
    /\ packItemUrls = <<>>
    /\ itemIdx = 0
    /\ packsVisited = <<>>
    /\ itemsTried = <<>>
    /\ packFailedAt = 0
    /\ packName = <<>>
    /\ packFolder = <<>>
    /\ dirs = {}
    /\ placed = {}

\* A pack page with no element any selector of the scraper matches.
EmptyDom == [blob |-> <<>>, createLinks |-> <<>>, iconCards |-> <<>>,
             images |-> <<>>]

\* The front end of the scraper has not run.
ScrapeIdle ==
    /\ spc = "off"
    /\ listing = <<>>
    /\ packUrls = <<>>
    /\ packNo = 0
    /\ dom = EmptyDom
    /\ iconSlugs = <<>>
    /\ iconNo = 0
    /\ packsDone = <<>>
    /\ captured = {}

\* --------------------------------------------------------------- initial
Init ==
    /\ script \in Scripts
    /\ run = 1
    /\ items \in ItemLists
    /\ idx = 1
    /\ pc = "setup"
    /\ browser = "open"
    /\ pageUrl = BlankUrl
    /\ outcome = NoOutcome
    /\ cause = NoCause
    /\ listeners = {}
    /\ inflight = {}
    /\ nresp = 0
    /\ files = {}
    /\ slugToUuidMap = EmptyMap
    /\ mappingFile \in {NoFile, CorruptFile}
    /\ presigned = [i \in {} |-> NoId]
    /\ sec = NoId
    /\ allItems = {}
    /\ itemsFile = {}
    /\ navIssued = {}
    /\ fetches = {}
    /\ stored = {}
    /\ failed = {}
    /\ obtained = {}
    /\ handled = {}
    /\ catalog = <<>>
    /\ cpage = 0
    /\ cpc = "off"
    /\ allPackUrls = <<>>
    /\ navFailed = FALSE
    /\ PackLoopIdle
    /\ ScrapeIdle

\* ------------------------------------------------- the page and the network
\* The page opened by a resolution-trigger navigation produces a response of
\* the resolution endpoint; puppeteer calls every registered listener with it.
Respond ==
    /\ AtAwait /\ pc # "done"
    /\ navIssued # {}
    /\ listeners # {}
    /\ nresp < MaxResponses
    /\ \E id \in Ids, body \in Bodies :
          inflight' = inflight \cup
              {Handler(nresp + 1, l, id, body) : l \in listeners}
    /\ nresp' = nresp + 1
    /\ \E c \in navIssued :
          cause' = [r \in (DOMAIN cause) \cup {nresp + 1} |->
                       IF r = nresp + 1 THEN c ELSE cause[r]]
    /\ UNCHANGED <<pageUrl, outcome, crawlState, allItems, itemsFile, script, run, items, idx, pc, listeners, files,
                   slugToUuidMap, mappingFile, presigned, sec, navIssued,
                   fetches, stored, failed, obtained, handled>>

\* `await response.json()` rejects (the body is not available any more, or the
\* browser was closed): catch, the handler ends.
HandlerJsonThrow(h) ==
    /\ AtAwait
    /\ h \in inflight /\ h.stage = "json"
    /\ inflight' = inflight \ {h}
    /\ UNCHANGED <<cause, pageUrl, outcome, crawlState, conf, findState, idx, pc, listeners, nresp, files,
                   slugToUuidMap, mappingFile, sec, navIssued, fetches, stored,
                   failed, obtained, handled>>

\* browser.newPage(), the cookies and the first navigations succeed: the item
\* loop begins.
Setup_Ok ==
    /\ pc = "setup"
    /\ pc' = "loop"
    /\ UNCHANGED <<cause, pageUrl, outcome, crawlState, conf, findState, idx, listeners, inflight, nresp,
                   files, slugToUuidMap, mappingFile, sec, navIssued, fetches,
                   stored, failed, obtained, handled>>

\* A step before the loops throws (newPage, setCookie, the first page.goto):
\* catch (error) of main, finally browser.close().
Setup_Throw ==
    /\ pc = "setup"
    /\ pc' = "done"
    /\ browser' = CloseBrowser(browser)
    /\ UNCHANGED <<cause, pageUrl, outcome, crawlVars, conf, findState, idx, listeners, inflight, nresp,
                   files, slugToUuidMap, mappingFile, sec, navIssued, fetches,
                   stored, failed, obtained, handled>>

\* ------------------------------------------------ scraper: src/index.js main
\* Skip if file already exists (continue).
Scraper_Skip ==
    /\ script = "scraper" /\ pc = "loop" /\ idx <= Len(items)
    /\ FileExists(files, Slug(idx))
    /\ idx' = idx + 1
    /\ UNCHANGED <<cause, pageUrl, outcome, crawlState, allItems, itemsFile, script, run, items, pc, listeners, inflight, nresp, files,
                   slugToUuidMap, mappingFile, presigned, sec, navIssued,
                   fetches, stored, failed, obtained, handled>>

\* page.on('response', responseHandler)
Scraper_PageOn ==
    /\ script = "scraper" /\ pc = "loop" /\ idx <= Len(items)
    /\ ~FileExists(files, Slug(idx))
    /\ listeners' = AddListener(listeners, idx)
    /\ pc' = "on"
    /\ UNCHANGED <<cause, pageUrl, outcome, crawlState, allItems, itemsFile, script, run, items, idx, inflight, nresp, files,
                   slugToUuidMap, mappingFile, presigned, sec, navIssued,
                   fetches, stored, failed, obtained, handled>>

\* page.goto(`https://pixcap.com/design/create?slug=${iconSlug}`) is issued.
Scraper_Goto ==
    /\ script = "scraper" /\ pc = "on"
    /\ navIssued' = navIssued \cup {idx}
    /\ pc' = "goto"
    /\ UNCHANGED <<cause, pageUrl, outcome, crawlState, allItems, itemsFile, script, run, items, idx, listeners, inflight, nresp, files,
                   slugToUuidMap, mappingFile, presigned, sec, fetches,
                   stored, failed, obtained, handled>>

\* The navigation settles (networkidle2); the 5 s wait begins.
Scraper_GotoOk ==
    /\ script = "scraper" /\ pc = "goto"
    /\ pc' = "wait"
    /\ UNCHANGED <<cause, pageUrl, outcome, crawlState, allItems, itemsFile, script, run, items, idx, listeners, inflight, nresp, files,
                   slugToUuidMap, mappingFile, presigned, sec, navIssued,
                   fetches, stored, failed, obtained, handled>>

\* Mutant of Scraper_GotoThrow: the navigation of the same icon is tried again.
Scraper_GotoThrowRetry ==
    /\ script = "scraper" /\ pc = "goto"
    /\ pc' = "on"
    /\ UNCHANGED <<cause, pageUrl, outcome, crawlState, conf, findState, idx, listeners,
                   inflight, nresp, files, slugToUuidMap, mappingFile, sec,
                   navIssued, fetches, stored, failed, obtained, handled>>

\* The navigation throws (timeout): catch (iconError), next icon.
Scraper_GotoThrow ==
    /\ script = "scraper" /\ pc = "goto"
    /\ idx' = idx + 1
    /\ pc' = "loop"
    /\ outcome' = SetOutcome(outcome, idx, "TimedOut")
    /\ UNCHANGED <<cause, pageUrl, crawlState, allItems, itemsFile, script, run, items, listeners, inflight, nresp, files,
                   slugToUuidMap, mappingFile, presigned, sec, navIssued,
                   fetches, stored, failed, obtained, handled>>

\* await page.waitForTimeout(5000); page.removeListener(...); next icon.
Scraper_WaitRemove ==
    /\ script = "scraper" /\ pc = "wait"
    /\ listeners' = RemoveListener(listeners, idx)
    /\ idx' = idx + 1
    /\ pc' = "loop"
    /\ outcome' = SetOutcome(outcome, idx,
                              IF EventSeen(idx) THEN "Resolved" ELSE "NoMatch")
    /\ UNCHANGED <<cause, pageUrl, crawlState, allItems, itemsFile, script, run, items, inflight, nresp, files,
                   slugToUuidMap, mappingFile, presigned, sec, navIssued,
                   fetches, stored, failed, obtained, handled>>

\* responseHandler after `await response.json()`.
Scraper_HandlerJson(h) ==
    /\ script = "scraper" /\ AtAwait /\ pc # "done"
    /\ h \in inflight /\ h.stage = "json"
    /\ IF HasSignedUrl(h)
         THEN /\ slugToUuidMap' = MapSet(slugToUuidMap, Slug(h.lst), h.id)
              /\ fetches' = fetches \cup {Fetch(h.lst, h.rid, h.id)}
              /\ inflight' = Advance(h, "fetch")
         ELSE /\ inflight' = inflight \ {h}
              /\ UNCHANGED <<cause, pageUrl, outcome, slugToUuidMap, fetches>>
    /\ obtained' = Observe(obtained, Slug(h.lst), h.body)
    /\ handled' = handled \cup {Slug(h.lst)}
    /\ UNCHANGED <<cause, pageUrl, outcome, crawlState, conf, findState, idx, pc, listeners, nresp, files,
                   mappingFile, sec, navIssued, stored, failed>>

\* axios.get(presignedUrl) succeeded; fs.writeFile(outputPath, ...).
Scraper_FetchOk(h) ==
    /\ script = "scraper" /\ AtAwait
    /\ h \in inflight /\ h.stage = "fetch"
    /\ files' = files \cup {GlbName(Slug(h.lst), h.id)}
    /\ stored' = stored \cup {Store(Slug(h.lst), h.id)}
    /\ inflight' = inflight \ {h}
    /\ UNCHANGED <<cause, pageUrl, outcome, crawlState, allItems, itemsFile, script, run, items, idx, pc, listeners, nresp,
                   slugToUuidMap, mappingFile, presigned, sec, navIssued,
                   fetches, failed, obtained, handled>>

\* axios.get(presignedUrl) failed: catch (dlError).
Scraper_FetchFail(h) ==
    /\ script = "scraper" /\ AtAwait
    /\ h \in inflight /\ h.stage = "fetch"
    /\ failed' = failed \cup {Slug(h.lst)}
    /\ inflight' = inflight \ {h}
    /\ UNCHANGED <<cause, pageUrl, outcome, crawlState, allItems, itemsFile, script, run, items, idx, pc, listeners, nresp, files,
                   slugToUuidMap, mappingFile, presigned, sec, navIssued,
                   fetches, stored, obtained, handled>>

\* After the loops: the mapping file is written from slugToUuidMap; browser.close().
Scraper_SaveMapping ==
    /\ script = "scraper" /\ pc = "loop" /\ idx > Len(items)
    /\ mappingFile' = MapFile(slugToUuidMap)
    /\ pc' = "done"
    /\ browser' = CloseBrowser(browser)
    /\ UNCHANGED <<cause, pageUrl, outcome, crawlVars, allItems, itemsFile, script, run, items, idx, listeners, inflight, nresp, files,
                   slugToUuidMap, presigned, sec, navIssued, fetches, stored,
                   failed, obtained, handled>>

\* After the loops fs.writeFile(mappingPath) rejects: catch (error) of main,
\* finally browser.close().
Scraper_SaveMappingThrow ==
    /\ script = "scraper" /\ pc = "loop" /\ idx > Len(items)
    /\ pc' = "done"
    /\ browser' = CloseBrowser(browser)
    /\ UNCHANGED <<cause, pageUrl, outcome, crawlVars, conf, findState, idx, listeners, inflight, nresp,
                   files, slugToUuidMap, mappingFile, sec, navIssued, fetches,
                   stored, failed, obtained, handled>>

\* The process has ended (nothing pending); the script is started again on
\* the same output directory.  Repeated runs are followed for the scraper,
\* the script that reads its output directory back (the skip check).
Restart ==
    /\ script = "scraper"
    /\ pc = "done" /\ inflight = {} /\ run < MaxRuns
    /\ run' = run + 1
    /\ idx' = 1
    /\ pc' = "setup"
    /\ browser' = "open"
    /\ outcome' = NoOutcome
    /\ cause' = NoCause
    /\ pageUrl' = BlankUrl
    /\ listeners' = {}
    /\ nresp' = 0
    /\ slugToUuidMap' = EmptyMap
    /\ presigned' = [i \in {} |-> NoId]
    /\ sec' = NoId
    /\ allItems' = itemsFile
    /\ navIssued' = {}
    /\ fetches' = {}
    /\ UNCHANGED <<crawlVars, script, items, inflight, files, mappingFile, itemsFile,
                   stored, failed, obtained, handled>>

NextScraper ==
    \/ Scraper_Skip
    \/ Scraper_PageOn
    \/ Scraper_Goto
    \/ Scraper_GotoOk
    \/ Scraper_GotoThrow
    \/ Scraper_WaitRemove
    \/ Scraper_SaveMapping
    \/ Scraper_SaveMappingThrow
    \/ \E h \in inflight : Scraper_HandlerJson(h)
    \/ \E h \in inflight : Scraper_FetchOk(h)
    \/ \E h \in inflight : Scraper_FetchFail(h)

\* ----------------------------------- direct downloader: src/index.js 546-842
\* A call of downloadGlbFile issued from the main path (not from a listener).
MainCall == 0

\* createResponseHandler(iconSlug); page.on('response', responseHandler)
Direct_PageOn ==
    /\ script = "direct" /\ pc = "loop" /\ idx <= Len(items)
    /\ listeners' = AddListener(listeners, idx)
    /\ pc' = "on"
    /\ UNCHANGED <<cause, pageUrl, outcome, crawlState, conf, findState, idx, inflight, nresp, files, slugToUuidMap,
                   mappingFile, sec, navIssued, fetches, stored, failed,
                   obtained, handled>>

\* page.goto(`https://pixcap.com/design/create?slug=${iconSlug}`) is issued.
Direct_Goto ==
    /\ script = "direct" /\ pc = "on"
    /\ navIssued' = navIssued \cup {idx}
    /\ pc' = "goto"
    /\ pageUrl' = CreateUrl
    /\ UNCHANGED <<cause, outcome, crawlState, conf, findState, idx, listeners, inflight, nresp, files,
                   slugToUuidMap, mappingFile, sec, fetches, stored, failed,
                   obtained, handled>>

\* The navigation settles; screenshot; the 10 s wait begins.
Direct_GotoOk ==
    /\ script = "direct" /\ pc = "goto"
    /\ pc' = "wait"
    /\ \E u \in PageUrls : pageUrl' = u
    /\ UNCHANGED <<cause, outcome, crawlState, conf, findState, idx, listeners, inflight, nresp, files,
                   slugToUuidMap, mappingFile, sec, navIssued, fetches, stored,
                   failed, obtained, handled>>

\* The navigation throws (timeout): catch (error), next icon.
Direct_GotoThrow ==
    /\ script = "direct" /\ pc = "goto"
    /\ idx' = idx + 1
    /\ pc' = "loop"
    /\ outcome' = SetOutcome(outcome, idx, "TimedOut")
    /\ UNCHANGED <<cause, pageUrl, crawlState, conf, findState, listeners, inflight, nresp, files,
                   slugToUuidMap, mappingFile, sec, navIssued, fetches, stored,
                   failed, obtained, handled>>

\* After the wait page.url() matches /\/design\/([a-f0-9-]+)/i: the resolution
\* endpoint is fetched from the page with that uuid.
Direct_UrlUuid ==
    /\ script = "direct" /\ pc = "wait"
    /\ UrlMatch(pageUrl) # NoId
    /\ sec' = UrlMatch(pageUrl)
    /\ pc' = "sec"
    /\ UNCHANGED <<cause, pageUrl, outcome, crawlState, conf, findState, idx, listeners, inflight, nresp, files,
                   slugToUuidMap, mappingFile, navIssued, fetches, stored,
                   failed, obtained, handled>>

\* Mutant of Direct_UrlNoUuid: the page content is scanned whatever the URL is.
Direct_UrlNoUuidAlways ==
    /\ script = "direct" /\ pc = "wait"
    /\ pc' = "scan"
    /\ UNCHANGED <<cause, pageUrl, outcome, crawlState, conf, findState, idx, listeners,
                   inflight, nresp, files, slugToUuidMap, mappingFile, sec,
                   navIssued, fetches, stored, failed, obtained, handled>>

\* After the wait page.url() has no uuid: the page content is scanned.
Direct_UrlNoUuid ==
    /\ script = "direct" /\ pc = "wait"
    /\ UrlMatch(pageUrl) = NoId
    /\ pc' = "scan"
    /\ UNCHANGED <<cause, pageUrl, outcome, crawlState, conf, findState, idx, listeners, inflight, nresp, files,
                   slugToUuidMap, mappingFile, sec, navIssued, fetches, stored,
                   failed, obtained, handled>>

\* The scan of meta tags and scripts found a uuid: the endpoint is fetched.
Direct_ScanFound ==
    /\ script = "direct" /\ pc = "scan"
    /\ \E pageUuid \in Ids : sec' = pageUuid
    /\ pc' = "sec"
    /\ UNCHANGED <<cause, pageUrl, outcome, crawlState, conf, findState, idx, listeners, inflight, nresp, files,
                   slugToUuidMap, mappingFile, navIssued, fetches, stored,
                   failed, obtained, handled>>

\* The scan found nothing (pageUuid null): page.removeListener, next icon.
Direct_ScanNone ==
    /\ script = "direct" /\ pc = "scan"
    /\ listeners' = RemoveListener(listeners, idx)
    /\ idx' = idx + 1
    /\ pc' = "loop"
    /\ outcome' = SetOutcome(outcome, idx,
                              IF EventSeen(idx) THEN "Resolved" ELSE "NoMatch")
    /\ UNCHANGED <<cause, pageUrl, crawlState, conf, findState, inflight, nresp, files, slugToUuidMap,
                   mappingFile, sec, navIssued, fetches, stored, failed,
                   obtained, handled>>

\* Mutant of Direct_SecUrl: the signed URL of the secondary fetch is dropped.
Direct_SecUrlDropped ==
    /\ script = "direct" /\ pc = "sec"
    /\ sec \in Ids
    /\ obtained' = Observe(obtained, Slug(idx), "url")
    /\ handled' = handled \cup {Slug(idx)}
    /\ pc' = "dl"
    /\ outcome' = SetOutcome(outcome, idx, "Resolved")
    /\ UNCHANGED <<cause, pageUrl, crawlState, conf, findState, idx, listeners,
                   nresp, files, slugToUuidMap, mappingFile, sec, navIssued,
                   stored, failed, inflight, fetches>>

\* presignedResponse.presignedUrl is set: await downloadGlbFile(url, slug, uuid).
Direct_SecUrl ==
    /\ script = "direct" /\ pc = "sec"
    /\ sec \in Ids
    /\ inflight' = inflight \cup
          {[Handler(MainCall, idx, sec, "url") EXCEPT !.stage = "fetch"]}
    /\ fetches' = fetches \cup {Fetch(idx, MainCall, sec)}
    /\ obtained' = Observe(obtained, Slug(idx), "url")
    /\ handled' = handled \cup {Slug(idx)}
    /\ pc' = "dl"
    /\ outcome' = SetOutcome(outcome, idx, "Resolved")
    /\ UNCHANGED <<cause, pageUrl, crawlState, conf, findState, idx, listeners, nresp, files,
                   slugToUuidMap, mappingFile, sec, navIssued, stored, failed>>

\* presignedResponse has an error or no presignedUrl: page.removeListener, next.
Direct_SecNoUrl ==
    /\ script = "direct" /\ pc = "sec"
    /\ listeners' = RemoveListener(listeners, idx)
    /\ handled' = handled \cup {Slug(idx)}
    /\ idx' = idx + 1
    /\ pc' = "loop"
    /\ outcome' = SetOutcome(outcome, idx,
                              IF EventSeen(idx) THEN "Resolved" ELSE "NoMatch")
    /\ UNCHANGED <<cause, pageUrl, crawlState, conf, findState, inflight, nresp, files, slugToUuidMap,
                   mappingFile, sec, navIssued, fetches, stored, failed,
                   obtained>>

\* The main path's downloadGlbFile has returned: page.removeListener, next icon.
Direct_DlReturn ==
    /\ script = "direct" /\ pc = "dl"
    /\ ~\E d \in inflight : d.rid = MainCall
    /\ listeners' = RemoveListener(listeners, idx)
    /\ idx' = idx + 1
    /\ pc' = "loop"
    /\ UNCHANGED <<cause, pageUrl, outcome, crawlState, conf, findState, inflight, nresp, files, slugToUuidMap,
                   mappingFile, sec, navIssued, fetches, stored, failed,
                   obtained, handled>>

\* The handler made by createResponseHandler, after `await response.json()`.
Direct_HandlerJson(h) ==
    /\ script = "direct" /\ AtAwait /\ pc # "done"
    /\ h \in inflight /\ h.stage = "json"
    /\ IF HasSignedUrl(h)
         THEN /\ fetches' = fetches \cup {Fetch(h.lst, h.rid, h.id)}
              /\ inflight' = Advance(h, "fetch")
         ELSE /\ inflight' = inflight \ {h}
              /\ UNCHANGED fetches
    /\ obtained' = Observe(obtained, Slug(h.lst), h.body)
    /\ handled' = handled \cup {Slug(h.lst)}
    /\ UNCHANGED <<cause, pageUrl, outcome, crawlState, conf, findState, idx, pc, listeners, nresp, files,
                   slugToUuidMap, mappingFile, sec, navIssued, stored, failed>>

\* if (fs.existsSync(mappingPath)) mappings = JSON.parse(fs.readFileSync(...))
\* try { ... } catch (e) { 'Error reading mappings file' }: mappings stays {}
ReadMappings(f) == IF f.exists /\ f.valid THEN f.map ELSE EmptyMap

\* What readFileSync can return to a call: the file as it is, or, while the
\* fs.writeFile of another call is rewriting it, a truncated text that
\* JSON.parse rejects.
MappingReads(d) ==
    {ReadMappings(mappingFile)} \cup
    IF \E e \in inflight : e # d /\ e.stage = "wmap" THEN {EmptyMap} ELSE {}

\* Mutant of Direct_FetchOk: the error of reading a mapping file that
\* JSON.parse rejects is not caught where it is raised and ends the call.
Direct_FetchOkStrict(d) ==
    /\ script = "direct" /\ AtAwait
    /\ d \in inflight /\ d.stage = "fetch"
    /\ files' = files \cup {GlbName(Slug(d.lst), d.id)}
    /\ stored' = stored \cup {Store(Slug(d.lst), d.id)}
    /\ IF mappingFile.exists /\ ~mappingFile.valid
         THEN inflight' = inflight \ {d}
         ELSE \E mappings \in MappingReads(d) :
                 inflight' = (inflight \ {d}) \cup
                     {[d EXCEPT !.stage = "wmap",
                                !.map = MapSet(mappings, Slug(d.lst), d.id)]}
    /\ UNCHANGED <<cause, pageUrl, outcome, crawlState, conf, findState, idx, pc, listeners, nresp, slugToUuidMap,
                   mappingFile, sec, navIssued, fetches, failed, obtained, handled>>

\* downloadGlbFile: axios.get succeeded, the .glb file is written, the mapping
\* file is read, mappings[iconSlug] = iconUuid, and its write is issued.
Direct_FetchOk(d) ==
    /\ script = "direct" /\ AtAwait
    /\ d \in inflight /\ d.stage = "fetch"
    /\ files' = files \cup {GlbName(Slug(d.lst), d.id)}
    /\ stored' = stored \cup {Store(Slug(d.lst), d.id)}
    /\ \E mappings \in MappingReads(d) :
          inflight' = (inflight \ {d}) \cup
              {[d EXCEPT !.stage = "wmap",
                         !.map = MapSet(mappings, Slug(d.lst), d.id)]}
    /\ UNCHANGED <<cause, pageUrl, outcome, crawlState, conf, findState, idx, pc, listeners, nresp, slugToUuidMap,
                   mappingFile, sec, navIssued, fetches, failed, obtained, handled>>

\* downloadGlbFile: axios.get failed: catch (dlError).
Direct_FetchFail(d) ==
    /\ script = "direct" /\ AtAwait
    /\ d \in inflight /\ d.stage = "fetch"
    /\ failed' = failed \cup {Slug(d.lst)}
    /\ inflight' = inflight \ {d}
    /\ UNCHANGED <<cause, pageUrl, outcome, crawlState, conf, findState, idx, pc, listeners, nresp, files,
                   slugToUuidMap, mappingFile, sec, navIssued, fetches, stored,
                   obtained, handled>>

\* downloadGlbFile: fs.writeFile(mappingPath, JSON.stringify(mappings)) is done.
Direct_MapWritten(d) ==
    /\ script = "direct" /\ AtAwait
    /\ d \in inflight /\ d.stage = "wmap"
    /\ mappingFile' = MapFile(d.map)
    /\ inflight' = inflight \ {d}
    /\ UNCHANGED <<cause, pageUrl, outcome, crawlState, conf, findState, idx, pc, listeners, nresp, files,
                   slugToUuidMap, sec, navIssued, fetches, stored, failed,
                   obtained, handled>>

\* End of the loop: finally browser.close().
Direct_Done ==
    /\ script = "direct" /\ pc = "loop" /\ idx > Len(items)
    /\ pc' = "done"
    /\ browser' = CloseBrowser(browser)
    /\ UNCHANGED <<cause, pageUrl, outcome, crawlVars, conf, findState, idx, listeners, inflight, nresp, files,
                   slugToUuidMap, mappingFile, sec, navIssued, fetches, stored,
                   failed, obtained, handled>>

NextDirect ==
    \/ Direct_PageOn
    \/ Direct_Goto
    \/ Direct_GotoOk
    \/ Direct_GotoThrow
    \/ Direct_UrlUuid
    \/ Direct_UrlNoUuid
    \/ Direct_ScanFound
    \/ Direct_ScanNone
    \/ Direct_SecUrl
    \/ Direct_SecNoUrl
    \/ Direct_DlReturn
    \/ Direct_Done
    \/ \E h \in inflight : Direct_HandlerJson(h)
    \/ \E d \in inflight : Direct_FetchOk(d)
    \/ \E d \in inflight : Direct_FetchFail(d)
    \/ \E d \in inflight : Direct_MapWritten(d)

\* -------------------------------------- item finder: src/find-items.js main
\* saveItems(): all-items.json is rewritten from allItems.
SaveItems(all) == all

\* allItems[itemSlug] = itemData; downloadGlbFile: presignedUrl = null;
\* page.on('response', handleResponse)
Find_PageOn ==
    /\ script = "find" /\ pc = "loop" /\ idx <= Len(items)
    /\ allItems' = allItems \cup {Slug(idx)}
    /\ presigned' = [i \in (DOMAIN presigned) \cup {idx} |->
                        IF i = idx THEN NoId ELSE presigned[i]]
    /\ listeners' = AddListener(listeners, idx)
    /\ pc' = "on"
    /\ UNCHANGED <<cause, pageUrl, outcome, crawlState, conf, itemsFile, idx, inflight, nresp, files, slugToUuidMap,
                   mappingFile, sec, navIssued, fetches, stored, failed,
                   obtained, handled>>

\* page.goto(`https://pixcap.com/design/create?slug=${itemSlug}`) is issued.
Find_Goto ==
    /\ script = "find" /\ pc = "on"
    /\ navIssued' = navIssued \cup {idx}
    /\ pc' = "goto"
    /\ UNCHANGED <<cause, pageUrl, outcome, crawlState, conf, findState, idx, listeners, inflight, nresp, files,
                   slugToUuidMap, mappingFile, sec, fetches, stored, failed,
                   obtained, handled>>

\* The navigation settles; page.waitForNavigation (the redirect) begins.
Find_GotoOk ==
    /\ script = "find" /\ pc = "goto"
    /\ pc' = "nav2"
    /\ UNCHANGED <<cause, pageUrl, outcome, crawlState, conf, findState, idx, listeners, inflight, nresp, files,
                   slugToUuidMap, mappingFile, sec, navIssued, fetches, stored,
                   failed, obtained, handled>>

\* page.goto or page.waitForNavigation throws: catch (error), return false;
\* saveItems(); next item.
Find_NavThrow ==
    /\ script = "find" /\ pc \in {"goto", "nav2"}
    /\ itemsFile' = SaveItems(allItems)
    /\ idx' = idx + 1
    /\ pc' = "loop"
    /\ outcome' = SetOutcome(outcome, idx, "TimedOut")
    /\ UNCHANGED <<cause, pageUrl, crawlState, conf, presigned, allItems, listeners, inflight, nresp,
                   files, slugToUuidMap, mappingFile, sec, navIssued, fetches,
                   stored, failed, obtained, handled>>

\* The redirect navigation settles; the 5 s wait begins.
Find_Nav2Ok ==
    /\ script = "find" /\ pc = "nav2"
    /\ pc' = "wait"
    /\ UNCHANGED <<cause, pageUrl, outcome, crawlState, conf, findState, idx, listeners, inflight, nresp, files,
                   slugToUuidMap, mappingFile, sec, navIssued, fetches, stored,
                   failed, obtained, handled>>

\* After the wait: page.off; if (presignedUrl) the binary fetch is issued.
Find_OffFetch ==
    /\ script = "find" /\ pc = "wait"
    /\ presigned[idx] # NoId
    /\ listeners' = RemoveListener(listeners, idx)
    /\ fetches' = fetches \cup {Fetch(idx, MainCall, presigned[idx])}
    /\ pc' = "dl"
    /\ outcome' = SetOutcome(outcome, idx, "Resolved")
    /\ UNCHANGED <<cause, pageUrl, crawlState, conf, findState, idx, inflight, nresp, files,
                   slugToUuidMap, mappingFile, sec, navIssued, stored, failed,
                   obtained, handled>>

\* After the wait: page.off; presignedUrl is null: return false; saveItems().
Find_OffNone ==
    /\ script = "find" /\ pc = "wait"
    /\ presigned[idx] = NoId
    /\ listeners' = RemoveListener(listeners, idx)
    /\ itemsFile' = SaveItems(allItems)
    /\ idx' = idx + 1
    /\ pc' = "loop"
    /\ outcome' = SetOutcome(outcome, idx, "NoMatch")
    /\ UNCHANGED <<cause, pageUrl, crawlState, conf, presigned, allItems, inflight, nresp, files,
                   slugToUuidMap, mappingFile, sec, navIssued, fetches, stored,
                   failed, obtained, handled>>

\* axios succeeded: fs.writeFileSync(path.join(packFolder, `${itemSlug}.glb`));
\* return true; saveItems(); next item.
Find_DlOk ==
    /\ script = "find" /\ pc = "dl"
    /\ files' = files \cup {FindName(Slug(idx))}
    /\ stored' = stored \cup {Store(Slug(idx), presigned[idx])}
    /\ itemsFile' = SaveItems(allItems)
    /\ idx' = idx + 1
    /\ pc' = "loop"
    /\ UNCHANGED <<cause, pageUrl, outcome, crawlState, conf, presigned, allItems, listeners, inflight, nresp,
                   slugToUuidMap, mappingFile, sec, navIssued, fetches, failed,
                   obtained, handled>>

\* axios failed: catch (error), return false; saveItems(); next item.
Find_DlFail ==
    /\ script = "find" /\ pc = "dl"
    /\ failed' = failed \cup {Slug(idx)}
    /\ itemsFile' = SaveItems(allItems)
    /\ idx' = idx + 1
    /\ pc' = "loop"
    /\ UNCHANGED <<cause, pageUrl, outcome, crawlState, conf, presigned, allItems, listeners, inflight, nresp,
                   files, slugToUuidMap, mappingFile, sec, navIssued, fetches,
                   stored, obtained, handled>>

\* handleResponse after `await response.json()`: the signed URL is captured in
\* the presignedUrl variable of the call that registered the listener.
Find_HandlerJson(h) ==
    /\ script = "find" /\ AtAwait /\ pc # "done"
    /\ h \in inflight /\ h.stage = "json"
    /\ IF HasGlbUrl(h)
         THEN presigned' = [presigned EXCEPT ![h.lst] = h.id]
         ELSE UNCHANGED presigned
    /\ inflight' = inflight \ {h}
    /\ obtained' = Observe(obtained, Slug(h.lst), h.body)
    /\ handled' = handled \cup {Slug(h.lst)}
    /\ UNCHANGED <<cause, pageUrl, outcome, crawlState, conf, allItems, itemsFile, idx, pc, listeners, nresp, files,
                   slugToUuidMap, mappingFile, sec, navIssued, fetches, stored,
                   failed>>

\* End of the loops: final saveItems(); finally browser.close().
Find_Done ==
    /\ script = "find" /\ pc = "loop" /\ idx > Len(items)
    /\ itemsFile' = SaveItems(allItems)
    /\ pc' = "done"
    /\ browser' = CloseBrowser(browser)
    /\ UNCHANGED <<cause, pageUrl, outcome, crawlVars, conf, presigned, allItems, idx, listeners, inflight, nresp,
                   files, slugToUuidMap, mappingFile, sec, navIssued, fetches,
                   stored, failed, obtained, handled>>

NextFind ==
    \/ Find_PageOn
    \/ Find_Goto
    \/ Find_GotoOk
    \/ Find_NavThrow
    \/ Find_Nav2Ok
    \/ Find_OffFetch
    \/ Find_OffNone
    \/ Find_DlOk
    \/ Find_DlFail
    \/ Find_Done
    \/ \E h \in inflight : Find_HandlerJson(h)


Next ==
    \/ Setup_Ok
    \/ Setup_Throw
    \/ Respond
    \/ \E h \in inflight : HandlerJsonThrow(h)
    \/ Restart
    \/ NextScraper
    \/ NextDirect
    \/ NextFind

Spec == Init /\ [][Next]_vars

\* Every await of the main path and of a handler settles (navigations, waits
\* and fetches carry timeouts), so a step that can be taken is taken.
SpecFair == Spec /\ WF_vars(Next)

\* ------------------------- pack listing pagination: src/find-items.js main
\* An anchor a[href^="/pack/"] of a listing page: link.href is the absolute
\* URL, of which only the path identifies the pack.
Href(path, query) == [path |-> path, query |-> query]

\* new URL(link.href).pathname
Pathname(h) == h.path

RECURSIVE MapPathname(_)
MapPathname(hs) ==
    IF hs = <<>> THEN <<>>
    ELSE <<Pathname(Head(hs))>> \o MapPathname(Tail(hs))

\* a.indexOf(v): the first index holding v (the caller passes an element of a)
IndexOf(a, v) == CHOOSE i \in 1..Len(a) : a[i] = v /\ \A j \in 1..(i - 1) : a[j] # v

\* .filter((v, i, a) => a.indexOf(v) === i)
RECURSIVE FilterFirst(_, _)
FilterFirst(a, i) ==
    IF i > Len(a) THEN <<>>
    ELSE (IF IndexOf(a, a[i]) = i THEN <<a[i]>> ELSE <<>>) \o FilterFirst(a, i + 1)

\* getPackUrls(): the pathnames of the page's pack anchors, unique values only
GetPackUrls(page) == FilterFirst(MapPathname(page), 1)

\* allPackUrls.includes(url)
Includes(a, v) == \E i \in 1..Len(a) : a[i] = v

\* Mutant of MergeUrls: every url of the page is pushed.
RECURSIVE MergeUrlsNoCheck(_, _)
MergeUrlsNoCheck(all, urls) ==
    IF urls = <<>> THEN all
    ELSE MergeUrlsNoCheck(Append(all, Head(urls)), Tail(urls))

\* for (const url of pagePackUrls) if (!allPackUrls.includes(url)) push(url)
RECURSIVE MergeUrls(_, _)
MergeUrls(all, urls) ==
    IF urls = <<>> THEN all
    ELSE MergeUrls(IF Includes(all, Head(urls)) THEN all
                   ELSE Append(all, Head(urls)), Tail(urls))

\* The page has a pagination element with an enabled next control.
HasNextPage(k) == k < Len(catalog)

resolverState == <<script, run, items, idx, pc, listeners, inflight, nresp,
                   files, slugToUuidMap, mappingFile, presigned, sec, allItems,
                   itemsFile, navIssued, fetches, stored, failed, obtained,
                   handled, browser, pageUrl, outcome, cause, scrapeState>>

\* page.goto('https://pixcap.com/3d-icon-packs'); allPackUrls = getPackUrls()
Crawl_First ==
    /\ cpc = "start"
    /\ cpage' = 1
    /\ allPackUrls' = GetPackUrls(catalog[1])
    /\ cpc' = "check"
    /\ UNCHANGED <<resolverState, catalog, navFailed, packState, outState>>

\* hasNextPage is false: 'No more pagination found.'; break
Crawl_NoNext ==
    /\ cpc = "check" /\ ~HasNextPage(cpage)
    /\ cpc' = "end"
    /\ UNCHANGED <<resolverState, catalog, cpage, allPackUrls, navFailed, packState, outState>>

\* The next button is clicked; page.waitForNavigation begins.
Crawl_Click ==
    /\ cpc = "check" /\ HasNextPage(cpage)
    /\ cpc' = "nav"
    /\ UNCHANGED <<resolverState, catalog, cpage, allPackUrls, navFailed, packState, outState>>

\* nextPageClicked is false (the click selector finds no button): break
Crawl_ClickFails ==
    /\ cpc = "check" /\ HasNextPage(cpage)
    /\ cpc' = "end"
    /\ UNCHANGED <<resolverState, catalog, cpage, allPackUrls, navFailed, packState, outState>>

\* The navigation settles: currentPage++; the page's pack urls are merged.
Crawl_NavOk ==
    /\ cpc = "nav"
    /\ cpage' = cpage + 1
    /\ allPackUrls' = MergeUrls(allPackUrls, GetPackUrls(catalog[cpage + 1]))
    /\ cpc' = "check"
    /\ UNCHANGED <<resolverState, catalog, navFailed, packState, outState>>

\* Mutant of Crawl_NavFails: the rejection is logged and the loop goes on.
Crawl_NavFailsRetry ==
    /\ cpc = "nav"
    /\ cpc' = "check"
    /\ navFailed' = TRUE
    /\ UNCHANGED <<resolverState, catalog, cpage, allPackUrls, packState, outState>>

\* Mutant of Crawl_NavFails: the references collected so far are dropped.
Crawl_NavFailsDiscard ==
    /\ cpc = "nav"
    /\ cpc' = "end"
    /\ navFailed' = TRUE
    /\ allPackUrls' = <<>>
    /\ UNCHANGED <<resolverState, catalog, cpage, packState, outState>>

\* waitForNavigation rejects: hasMorePages = false; break
Crawl_NavFails ==
    /\ cpc = "nav"
    /\ cpc' = "end"
    /\ navFailed' = TRUE
    /\ UNCHANGED <<resolverState, catalog, cpage, allPackUrls, packState, outState>>

NextCrawl ==
    \/ Crawl_First
    \/ Crawl_NoNext
    \/ Crawl_Click
    \/ Crawl_ClickFails
    \/ Crawl_NavOk
    \/ Crawl_NavFails

\* The listing pages the catalogue is made of.
MaxPages == 3
H(n) == Href(<<"/pack/", n>>, "")
Hq(n) == Href(<<"/pack/", n>>, "?ref=home")
PageChoices ==
    { <<>>,
      <<H(1), H(2)>>,
      <<H(3), H(4), H(5)>>,
      <<H(6)>>,
      <<H(1), Hq(1)>>,
      <<Hq(2), H(3), H(2)>> }
Catalogs ==
    UNION {[1..n -> PageChoices] : n \in 1..MaxPages}

InitCrawl ==
    /\ script = "find"
    /\ run = 1
    /\ items = <<>>
    /\ idx = 1
    /\ pc = "off"
    /\ browser = "open"
    /\ pageUrl = BlankUrl
    /\ outcome = NoOutcome
    /\ cause = NoCause
    /\ listeners = {}
    /\ inflight = {}
    /\ nresp = 0
    /\ files = {}
    /\ slugToUuidMap = EmptyMap
    /\ mappingFile = NoFile
    /\ presigned = [i \in {} |-> NoId]
    /\ sec = NoId
    /\ allItems = {}
    /\ itemsFile = {}
    /\ navIssued = {}
    /\ fetches = {}
    /\ stored = {}
    /\ failed = {}
    /\ obtained = {}
    /\ handled = {}
    /\ catalog \in Catalogs
    /\ cpage = 0
    /\ cpc = "start"
    /\ allPackUrls = <<>>
    /\ navFailed = FALSE
    /\ PackLoopIdle
    /\ ScrapeIdle

SpecCrawl == InitCrawl /\ [][NextCrawl]_vars

\* ------------------------------- pack and item loops: src/find-items.js main
\* An anchor of a pack page that leads to an item.
I(n) == Href(<<"/item/", n>>, "")
Iq(n) == Href(<<"/item/", n>>, "?ref=pack")

\* el.href && el.href.includes('/item/')
IsItemLink(h) == h.path[1] = "/item/"

\* urls.add(el.href): a Set keeps insertion order and holds each href once
SetAdd(urls, h) == IF Includes(urls, h) THEN urls ELSE Append(urls, h)

\* scanForItemLinks(elements)
RECURSIVE ScanForItemLinks(_, _)
ScanForItemLinks(urls, els) ==
    IF els = <<>> THEN urls
    ELSE ScanForItemLinks(IF IsItemLink(Head(els)) THEN SetAdd(urls, Head(els))
                          ELSE urls, Tail(els))

\* getItemUrls(): the four strategies fill one Set of hrefs; the hrefs are
\* then mapped to their pathnames.
GetItemUrls(page) ==
    MapPathname(
        ScanForItemLinks(
            ScanForItemLinks(
                ScanForItemLinks(
                    ScanForItemLinks(<<>>, page.direct),
                    page.comp),
                page.cards),
            page.tags))

\* itemUrl.split('/').pop()
ItemSlug(url) == <<url[Len(url)]>>

\* The main-path state of the resolver that the pack and item loops leave alone
\* (downloadGlbFile is modelled step by step by the Find_ actions; the loops
\* below see its outcome).
resolverRest == <<script, run, items, idx, pc, listeners, inflight, nresp,
                  slugToUuidMap, mappingFile, presigned, sec, navIssued,
                  fetches, stored, failed, obtained, handled, pageUrl,
                  outcome, cause, scrapeState>>
listingState == <<catalog, cpage, allPackUrls, navFailed>>

\* Titles a pack page can show (textContent.trim() of the title element).
PackNames == {<<"T">>, <<"F", "&", "D">>}

\* \w and \s of the regular expression, over the characters of the titles
WordOrSpace == {"T", "F", "D", "_", " "}

\* packName.replace(/[^\w\s]/gi, '_')
Sanitise(title) ==
    [i \in DOMAIN title |-> IF title[i] \in WordOrSpace THEN title[i] ELSE "_"]

\* downloadGlbFile: path.join(DOWNLOAD_DIR, `${item.packName || 'unknown-pack'}`)
DownloadFolder(title) == IF title = <<>> THEN <<"unknown-pack">> ELSE title

\* Pages a pack can show.
MaxPackPages == 2
PackPageChoices ==
    { EmptyPage,
      [direct |-> <<I("a"), I("b")>>, comp |-> <<I("b")>>,
       cards |-> <<I("c"), H(1)>>, tags |-> <<>>],
      [direct |-> <<I("a"), Iq("a")>>, comp |-> <<>>,
       cards |-> <<>>, tags |-> <<I("b")>>] }

\* 'Found N total unique pack URLs'; PACKS_PATH written; the pack loop begins
Crawl_SavePacks ==
    /\ cpc = "end"
    /\ cpc' = "packs"
    /\ packIdx' = 1
    /\ UNCHANGED <<outState, resolverState, listingState, packPage, packCurrentPage,
                   packItemUrls, itemIdx, packsVisited, itemsTried,
                   packFailedAt>>

\* for (i ...) page.goto(fullPackUrl)
Pack_Goto ==
    /\ cpc = "packs" /\ packIdx <= Len(allPackUrls)
    /\ packsVisited' = Append(packsVisited, allPackUrls[packIdx])
    /\ packItemUrls' = <<>>
    /\ itemsTried' = <<>>
    /\ itemIdx' = 0
    /\ packCurrentPage' = 0
    /\ cpc' = "packgoto"
    /\ UNCHANGED <<outState, resolverState, listingState, packIdx, packPage,
                   packFailedAt>>

\* Mutant of Pack_GotoThrow: the error of one pack ends the pack loop.
Pack_GotoThrowHalts ==
    /\ cpc = "packgoto"
    /\ packFailedAt' = IF packFailedAt = 0 THEN packIdx ELSE packFailedAt
    /\ itemsFile' = SaveItems(allItems)
    /\ cpc' = "fin"
    /\ UNCHANGED <<outState, resolverRest, browser, files, allItems, listingState, packIdx,
                   packPage, packCurrentPage, packItemUrls, itemIdx,
                   packsVisited, itemsTried>>

\* The pack page cannot be loaded: catch (packError); saveItems(); next pack
Pack_GotoThrow ==
    /\ cpc = "packgoto"
    /\ packFailedAt' = IF packFailedAt = 0 THEN packIdx ELSE packFailedAt
    /\ itemsFile' = SaveItems(allItems)
    /\ packIdx' = packIdx + 1
    /\ cpc' = "packs"
    /\ UNCHANGED <<outState, resolverRest, browser, files, allItems, listingState, packPage,
                   packCurrentPage, packItemUrls, itemIdx, packsVisited,
                   itemsTried>>

\* The pack page is loaded: packItemUrls = await getItemUrls()
Pack_GotoOk ==
    /\ cpc = "packgoto"
    /\ \E page \in PackPageChoices :
          /\ packPage' = page
          /\ packItemUrls' = GetItemUrls(page)
    /\ \E title \in PackNames :
          /\ packName' = title
          /\ packFolder' = Sanitise(title)
          /\ dirs' = dirs \cup {Sanitise(title)}
    /\ packCurrentPage' = 1
    /\ cpc' = "packcheck"
    /\ UNCHANGED <<placed, resolverState, listingState, packIdx, itemIdx,
                   packsVisited, itemsTried, packFailedAt>>

\* packHasNextPage is false: break; the item loop begins
Pack_NoNext ==
    /\ cpc = "packcheck"
    /\ cpc' = "items"
    /\ itemIdx' = 1
    /\ packPage' = EmptyPage
    /\ UNCHANGED <<outState, resolverState, listingState, packIdx, packCurrentPage,
                   packItemUrls, packsVisited, itemsTried, packFailedAt>>

\* The next button of the pack is clicked; page.waitForNavigation begins.
Pack_Click ==
    /\ cpc = "packcheck" /\ packCurrentPage < MaxPackPages
    /\ cpc' = "packnav"
    /\ UNCHANGED <<outState, resolverState, listingState, packState>>

\* packNextPageClicked is false: break
Pack_ClickFails ==
    /\ cpc = "packcheck" /\ packCurrentPage < MaxPackPages
    /\ cpc' = "items"
    /\ itemIdx' = 1
    /\ packPage' = EmptyPage
    /\ UNCHANGED <<outState, resolverState, listingState, packIdx, packCurrentPage,
                   packItemUrls, packsVisited, itemsTried, packFailedAt>>

\* The navigation settles: packCurrentPage++; the page's items are merged.
Pack_NavOk ==
    /\ cpc = "packnav"
    /\ \E page \in PackPageChoices :
          /\ packPage' = page
          /\ packItemUrls' = MergeUrls(packItemUrls, GetItemUrls(page))
    /\ packCurrentPage' = packCurrentPage + 1
    /\ cpc' = "packcheck"
    /\ UNCHANGED <<outState, resolverState, listingState, packIdx, itemIdx,
                   packsVisited, itemsTried, packFailedAt>>

\* waitForNavigation rejects: packHasMorePages = false; break
Pack_NavFails ==
    /\ cpc = "packnav"
    /\ cpc' = "items"
    /\ itemIdx' = 1
    /\ packPage' = EmptyPage
    /\ UNCHANGED <<outState, resolverState, listingState, packIdx, packCurrentPage,
                   packItemUrls, packsVisited, itemsTried, packFailedAt>>

\* for (j ...) allItems[itemSlug] = itemData; downloadGlbFile(itemData, page)
Item_Start ==
    /\ cpc = "items" /\ itemIdx <= Len(packItemUrls)
    /\ allItems' = allItems \cup {ItemSlug(packItemUrls[itemIdx])}
    /\ itemsTried' = Append(itemsTried, packItemUrls[itemIdx])
    /\ dirs' = dirs \cup {DownloadFolder(packName)}
    /\ cpc' = "itemdl"
    /\ UNCHANGED <<packName, packFolder, placed, resolverRest, browser, files, itemsFile, listingState, packIdx,
                   packPage, packCurrentPage, packItemUrls, itemIdx,
                   packsVisited, packFailedAt>>

\* downloadGlbFile returned true (the file is written); saveItems()
Item_DlOk ==
    /\ cpc = "itemdl"
    /\ files' = files \cup {FindName(ItemSlug(packItemUrls[itemIdx]))}
    /\ placed' = placed \cup
          {[dir |-> DownloadFolder(packName),
            name |-> FindName(ItemSlug(packItemUrls[itemIdx]))]}
    /\ itemsFile' = SaveItems(allItems)
    /\ itemIdx' = itemIdx + 1
    /\ cpc' = "items"
    /\ UNCHANGED <<packName, packFolder, dirs, resolverRest, browser, allItems, listingState, packIdx, packPage,
                   packCurrentPage, packItemUrls, packsVisited, itemsTried,
                   packFailedAt>>

\* downloadGlbFile caught an error or found no signed URL and returned false;
\* saveItems()
Item_DlFail ==
    /\ cpc = "itemdl"
    /\ itemsFile' = SaveItems(allItems)
    /\ itemIdx' = itemIdx + 1
    /\ cpc' = "items"
    /\ UNCHANGED <<outState, resolverRest, browser, files, allItems, listingState, packIdx,
                   packPage, packCurrentPage, packItemUrls, packsVisited,
                   itemsTried, packFailedAt>>

\* The item loop is over: 'Completed processing'; saveItems(); next pack
Items_End ==
    /\ cpc = "items" /\ itemIdx > Len(packItemUrls)
    /\ itemsFile' = SaveItems(allItems)
    /\ packIdx' = packIdx + 1
    /\ cpc' = "packs"
    /\ UNCHANGED <<outState, resolverRest, browser, files, allItems, listingState, packPage,
                   packCurrentPage, packItemUrls, itemIdx, packsVisited,
                   itemsTried, packFailedAt>>

\* The pack loop is over: final saveItems(); finally browser.close()
Packs_End ==
    /\ cpc = "packs" /\ packIdx > Len(allPackUrls)
    /\ itemsFile' = SaveItems(allItems)
    /\ cpc' = "fin"
    /\ browser' = CloseBrowser(browser)
    /\ UNCHANGED <<outState, resolverRest, files, allItems, listingState, packState>>

NextPacks ==
    \/ Crawl_SavePacks
    \/ Pack_Goto
    \/ Pack_GotoThrow
    \/ Pack_GotoOk
    \/ Pack_NoNext
    \/ Pack_Click
    \/ Pack_ClickFails
    \/ Pack_NavOk
    \/ Pack_NavFails
    \/ Item_Start
    \/ Item_DlOk
    \/ Item_DlFail
    \/ Items_End
    \/ Packs_End

NextPipeline == NextCrawl \/ NextPacks

\* The listings the whole pipeline is run on.
MaxListPages == 2
PipelinePages == {<<H(1), H(2)>>, <<H(1), Hq(1)>>, <<H(6)>>}
PipelineCatalogs ==
    UNION {[1..n -> PipelinePages] : n \in 1..MaxListPages}

InitPipeline == InitCrawl /\ catalog \in PipelineCatalogs

SpecPipeline == InitPipeline /\ [][NextPipeline]_vars

\* Every await of the main path settles (each navigation and wait carries a
\* timeout), so the main path always takes its next step.
SpecPipelineFair == SpecPipeline /\ WF_vars(NextPipeline)

\* ------------------------------- scraper front end: src/index.js main 92-334
\* Strings are sequences of tokens; "/" "?" "&" are tokens of their own.
Origin == "https://pixcap.com"

\* An anchor: the href attribute as written, and a.href (resolved).
RelAnchor(path) == [attr |-> path, href |-> <<Origin>> \o path]
AbsAnchor(path) == [attr |-> <<Origin>> \o path, href |-> <<Origin>> \o path]

\* s.includes(pat)
IncludesSeq(s, pat) ==
    \E k \in 1..(Len(s) - Len(pat) + 1) : SubSeq(s, k, k + Len(pat) - 1) = pat

\* new URL(href).pathname
UrlPathname(href) == IF href # <<>> /\ Head(href) = Origin THEN Tail(href) ELSE href

\* .filter(Boolean): null and '' are dropped
FilterBoolean(a) == SelectSeq(a, LAMBDA v : v # <<>>)

\* packUrls = page.evaluate(...): the a[href^="/pack/"] cards' attributes, or
\* with no card the pathnames of all anchors whose href includes '/pack/'
ExtractPackUrls(anchors) ==
    LET cards == SelectSeq(anchors, LAMBDA a : StartsWith(a.attr, <<"/pack/">>))
        links == SelectSeq(anchors, LAMBDA a : IncludesSeq(a.href, <<"/pack/">>))
    IN  IF cards = <<>>
          THEN [k \in DOMAIN links |-> UrlPathname(links[k].href)]
          ELSE [k \in DOMAIN cards |-> cards[k].attr]

hardcodedPacks == << <<"/pack/", "3d-icon-pack-furniture-models">>,
                    <<"/pack/", "3d-icon-set-buildings-houses">> >>

\* if (packUrls.length === 0) for (const packUrl of hardcodedPacks) ...
\* else for (const packUrl of packUrls) ...
PackQueue == IF packUrls = <<>> THEN hardcodedPacks ELSE packUrls

\* s.split(sep)
RECURSIVE Split(_, _)
Split(s, sep) ==
    IF \A k \in 1..Len(s) : s[k] # sep THEN <<s>>
    ELSE LET k == CHOOSE i \in 1..Len(s) :
                     s[i] = sep /\ \A j \in 1..(i - 1) : s[j] # sep
         IN  <<SubSeq(s, 1, k - 1)>> \o Split(SubSeq(s, k + 1, Len(s)), sep)

\* a.pop()
Pop(a) == a[Len(a)]

\* href.match(/slug=([^&]+)/): the group, or <<>> (null) without a match.
\* A createLinks element is held as the text that follows "slug=".
SlugParam(afterSlug) == Split(afterSlug, "&")[1]

\* icon.slug || icon.id
SlugOrId(icon) == IF icon.slug # <<>> THEN icon.slug ELSE icon.id

\* card.getAttribute('data-slug') || card.getAttribute('data-icon-slug')
CardSlug(card) == IF card.dataSlug # <<>> THEN card.dataSlug ELSE card.dataIconSlug

\* src.match(/\/([^\/]+)-3d-icon/): the segment in front of "-3d-icon" that
\* follows a "/"
SrcMatch(src) ==
    IF \E k \in 3..Len(src) : src[k] = "-3d-icon" /\ src[k - 2] = "/"
      THEN <<src[(CHOOSE k \in 3..Len(src) :
                    src[k] = "-3d-icon" /\ src[k - 2] = "/") - 1]>>
      ELSE <<>>

\* alt.match(/([a-z0-9-]+)-3d-icon/)
AltMatch(alt) ==
    IF \E k \in 2..Len(alt) : alt[k] = "-3d-icon"
      THEN <<alt[(CHOOSE k \in 2..Len(alt) : alt[k] = "-3d-icon") - 1]>>
      ELSE <<>>

\* (srcMatch && srcMatch[1]) || (altMatch && altMatch[1]) || null
ImageSlug(img) == IF SrcMatch(img.src) # <<>> THEN SrcMatch(img.src)
                  ELSE AltMatch(img.alt)

\* The extraction of the found packs: the window.__NUXT__ items, and the
\* create links if that gave nothing.
ExtractIconSlugs(d) ==
    LET iconData == [k \in DOMAIN d.blob |-> SlugOrId(d.blob[k])]
    IN  IF Len(iconData) = 0
          THEN FilterBoolean([k \in DOMAIN d.createLinks |-> SlugParam(d.createLinks[k])])
          ELSE iconData

\* The extraction of the hardcoded packs: the create links if there are any,
\* else the cards with a data attribute if there are any, else the images.
ExtractHardcoded(d) ==
    IF Len(d.createLinks) > 0
      THEN FilterBoolean([k \in DOMAIN d.createLinks |-> SlugParam(d.createLinks[k])])
    ELSE IF Len(d.iconCards) > 0
      THEN FilterBoolean([k \in DOMAIN d.iconCards |-> CardSlug(d.iconCards[k])])
    ELSE FilterBoolean([k \in DOMAIN d.images |-> ImageSlug(d.images[k])])

\* url.includes('/api/v1/assetmanager/presigned/loadProject/')
Endpoint == <<"/", "api", "/", "v1", "/", "assetmanager", "/", "presigned",
              "/", "loadProject", "/">>

\* const iconUuid = url.split('/').pop().split('?')[0]
IconUuid(url) == Split(Pop(Split(url, "/")), "?")[1]

\* The icon packs page as the browser can show it.
OtherAnchor == RelAnchor(<<"/about">>)
ListingChoices ==
    { <<>>,
      <<OtherAnchor>>,
      <<RelAnchor(<<"/pack/", "p1">>)>>,
      <<RelAnchor(<<"/pack/", "p1">>), OtherAnchor, RelAnchor(<<"/pack/", "p2">>)>>,
      <<AbsAnchor(<<"/pack/", "p1">>), OtherAnchor>>,
      <<RelAnchor(<<"/pack/", "p1">>), AbsAnchor(<<"/pack/", "p2">>)>> }

\* The pack pages as the browser can show them: the items of the
\* window.__NUXT__ state, the text after "slug=" of each create link, the
\* elements with a data attribute, the images.
DomChoices ==
    [blob : {<<>>, <<[slug |-> <<"a">>, id |-> <<"1">>]>>,
             <<[slug |-> <<>>, id |-> <<"7">>]>>},
     createLinks : {<<>>, << <<"b">> >>, << <<"&", "x">> >>},
     iconCards : {<<>>, <<[dataSlug |-> <<>>, dataIconSlug |-> <<"c">>]>>},
     images : {<<>>, <<[src |-> <<"/", "d", "-3d-icon">>, alt |-> <<>>]>>,
               <<[src |-> <<"logo">>, alt |-> <<"e", "-3d-icon">>]>>}]

\* The urls of the responses a design page produces.
EndpointUrl(rest) == <<"https:", "/", "/", "pixcap.com">> \o Endpoint \o rest
ResponseUrls ==
    { EndpointUrl(<<"1", "?", "lang=en">>),
      EndpointUrl(<<"2">>),
      EndpointUrl(<<"1", "?", "lang=en&next=", "/", "home">>),
      <<"https:", "/", "/", "pixcap.com", "/", "api", "/", "v1", "/", "me">> }

\* Every variable the front end of the scraper leaves alone.
scrapeRest == <<script, run, items, idx, pc, listeners, inflight, nresp, files,
                slugToUuidMap, mappingFile, presigned, sec, allItems, itemsFile,
                navIssued, fetches, stored, failed, obtained, handled, pageUrl,
                outcome, cause, catalog, cpage, cpc, allPackUrls, navFailed, packState,
                outState>>

\* const packUrls = await page.evaluate(...)
Scrape_PackUrls ==
    /\ spc = "list"
    /\ packUrls' = ExtractPackUrls(listing)
    /\ packNo' = 1
    /\ spc' = "packs"
    /\ UNCHANGED <<scrapeRest, browser, listing, dom, iconSlugs, iconNo,
                   packsDone, captured>>

\* for (const packUrl of ...): page.goto(fullPackUrl) loads the pack page.
Scrape_PackGoto ==
    /\ spc = "packs" /\ packNo <= Len(PackQueue)
    /\ packsDone' = Append(packsDone, PackQueue[packNo])
    /\ \E d \in DomChoices : dom' = d
    /\ spc' = "extract"
    /\ UNCHANGED <<scrapeRest, browser, listing, packUrls, packNo, iconSlugs,
                   iconNo, captured>>

\* page.goto(fullPackUrl) throws: catch (packError), next pack.
Scrape_PackGotoThrow ==
    /\ spc = "packs" /\ packNo <= Len(PackQueue)
    /\ packsDone' = Append(packsDone, PackQueue[packNo])
    /\ packNo' = packNo + 1
    /\ UNCHANGED <<scrapeRest, browser, spc, listing, packUrls, dom, iconSlugs,
                   iconNo, captured>>

\* const iconSlugs = await page.evaluate(...)
Scrape_Extract ==
    /\ spc = "extract"
    /\ iconSlugs' = IF packUrls = <<>> THEN ExtractHardcoded(dom)
                    ELSE ExtractIconSlugs(dom)
    /\ iconNo' = 1
    /\ spc' = "icons"
    /\ UNCHANGED <<scrapeRest, browser, listing, packUrls, packNo, dom,
                   packsDone, captured>>

\* One icon of the pack: while its page loads a response comes in whose body
\* has a signed URL; the handler takes it if the url is the endpoint's.
Scrape_Icon ==
    /\ spc = "icons" /\ iconNo <= Len(iconSlugs)
    /\ \E url \in ResponseUrls :
          captured' = IF IncludesSeq(url, Endpoint)
                        THEN captured \cup {[url |-> url, iconUuid |-> IconUuid(url)]}
                        ELSE captured
    /\ iconNo' = iconNo + 1
    /\ UNCHANGED <<scrapeRest, browser, spc, listing, packUrls, packNo, dom,
                   iconSlugs, packsDone>>

\* The icons of the pack are through: next pack.
Scrape_PackEnd ==
    /\ spc = "icons" /\ iconNo > Len(iconSlugs)
    /\ packNo' = packNo + 1
    /\ spc' = "packs"
    /\ UNCHANGED <<scrapeRest, browser, listing, packUrls, dom, iconSlugs,
                   iconNo, packsDone, captured>>

\* The packs are through: the mapping is saved; finally browser.close().
Scrape_End ==
    /\ spc = "packs" /\ packNo > Len(PackQueue)
    /\ spc' = "end"
    /\ browser' = CloseBrowser(browser)
    /\ UNCHANGED <<scrapeRest, listing, packUrls, packNo, dom, iconSlugs,
                   iconNo, packsDone, captured>>

NextScrape ==
    \/ Scrape_PackUrls
    \/ Scrape_PackGoto
    \/ Scrape_PackGotoThrow
    \/ Scrape_Extract
    \/ Scrape_Icon
    \/ Scrape_PackEnd
    \/ Scrape_End

InitScrape ==
    /\ script = "scraper"
    /\ run = 1
    /\ items = <<>>
    /\ idx = 1
    /\ pc = "off"
    /\ browser = "open"
    /\ pageUrl = BlankUrl
    /\ outcome = NoOutcome
    /\ cause = NoCause
    /\ listeners = {}
    /\ inflight = {}
    /\ nresp = 0
    /\ files = {}
    /\ slugToUuidMap = EmptyMap
    /\ mappingFile = NoFile
    /\ presigned = [i \in {} |-> NoId]
    /\ sec = NoId
    /\ allItems = {}
    /\ itemsFile = {}
    /\ navIssued = {}
    /\ fetches = {}
    /\ stored = {}
    /\ failed = {}
    /\ obtained = {}
    /\ handled = {}
    /\ catalog = <<>>
    /\ cpage = 0
    /\ cpc = "off"
    /\ allPackUrls = <<>>
    /\ navFailed = FALSE
    /\ PackLoopIdle
    /\ spc = "list"
    /\ listing \in ListingChoices
    /\ packUrls = <<>>
    /\ packNo = 0
    /\ dom = EmptyDom
    /\ iconSlugs = <<>>
    /\ iconNo = 0
    /\ packsDone = <<>>
    /\ captured = {}

SpecScrape == InitScrape /\ [][NextScrape]_vars

\* ------------------------------------------------------------------ claims
\* Files of the destination directory that were written for a slug.
FilesOf(s) ==
    {f \in files : f = FindName(s) \/ \E id \in Ids : f = GlbName(s, id)}

\* The destination directory holds a file named `<slug>__*.glb`.
HasGlbFor(fs, slug) ==
    \E f \in fs : /\ Len(f) >= Len(slug) + 2 + 4
                  /\ \A k \in 1..Len(slug) : f[k] = slug[k]
                  /\ f[Len(slug) + 1] = "_" /\ f[Len(slug) + 2] = "_"
                  /\ SubSeq(f, Len(f) - 3, Len(f)) = <<".", "g", "l", "b">>

\* C1: in every script, whenever the navigation to the resolution-trigger URL
\* of an item is issued, the response listener of that item is already
\* registered on the page (the registration happened in an earlier step).
C1_ListenerBeforeNavigation ==
    [][\A i \in navIssued' \ navIssued : i \in listeners /\ i \in listeners']_vars

\* C1 witness: a trigger navigation is in flight with its listener registered.
C1_Witness == pc = "goto" /\ idx \in navIssued /\ idx \in listeners

\* C2: when the processing of the next item begins (or the loop ends), no
\* listener of an earlier item is still registered, whatever the outcome of
\* that item's resolution was.
C2_ListenerRemovedBeforeNextItem ==
    pc = "loop" => \A i \in listeners : i >= idx

\* C3: at most one resolution listener is registered on the page, and it is
\* the listener of the item currently being resolved.
C3_SingleScopedListener ==
    Cardinality(listeners) <= 1 /\ listeners \subseteq {idx}

\* C4: in the scraper, when the loop reaches an item whose pack directory
\* already holds `<slug>__*.glb`, the step that processes the item registers
\* no listener, issues no navigation and no binary fetch, starts no handler,
\* writes no file, leaves both mappings unchanged, and moves to the next item.
C4_IdempotentSkip ==
    [][(/\ script = "scraper" /\ pc = "loop" /\ idx <= Len(items)
        /\ HasGlbFor(files, Slug(idx)))
       => (/\ listeners' = listeners /\ navIssued' = navIssued
           /\ fetches' = fetches /\ inflight' = inflight /\ files' = files
           /\ slugToUuidMap' = slugToUuidMap /\ mappingFile' = mappingFile
           /\ idx' = idx + 1 /\ pc' = "loop")]_vars

\* C4 witness: the previous item was passed in this run without a navigation
\* while a file `<slug>__*.glb` for it is on disk (it was skipped).
C4_Witness ==
    /\ script = "scraper" /\ pc = "loop" /\ idx > 1
    /\ (idx - 1) \notin navIssued
    /\ HasGlbFor(files, Slug(idx - 1))

\* C5: every successful store of (slug s, identifier id) leaves a file named
\* exactly `s__id.glb`, and once the run has ended the persisted mapping has
\* an entry for s.
C5_FileAndMappingCarryIdentifier ==
    \A st \in stored :
        /\ GlbName(st.slug, st.id) \in files
        /\ (pc = "done" /\ inflight = {}) =>
              (mappingFile.exists /\ st.slug \in DOMAIN mappingFile.map)

\* C6: a slug for which no obtained resolution response (intercepted or
\* fetched by the secondary path) carried a signed URL has no file and no
\* entry in the in-memory map or in the mapping file.
C6_NoSignedUrlNoStore ==
    \A s \in Slugs \ obtained :
        /\ FilesOf(s) = {}
        /\ s \notin DOMAIN slugToUuidMap
        /\ s \notin DOMAIN mappingFile.map
        /\ \A d \in inflight : d.stage = "json" \/ Slug(d.lst) # s

\* C6 witness: a run has ended in which a response body was parsed for a slug
\* and no response for that slug carried a signed URL.
C6_Witness ==
    /\ pc = "done" /\ inflight = {}
    /\ \E s \in handled : s \notin obtained

\* C7: a slug whose binary fetch failed (and for which none succeeded) has no
\* file and no entry in the in-memory map or in the persisted mapping file.
C7_FailedFetchLeavesNoTrace ==
    \A s \in failed \ {st.slug : st \in stored} :
        /\ FilesOf(s) = {}
        /\ s \notin DOMAIN slugToUuidMap
        /\ s \notin DOMAIN mappingFile.map

\* C8: for every item at most one resolution result leads to a binary fetch.
C8_AtMostOneResultPerItem ==
    \A i \in 1..Len(items) : Cardinality({f \in fetches : f.item = i}) <= 1

\* C9: a slug present in the persisted mapping file stays present, over every
\* step of a run and over successive runs on the same output directory.
C9_MappingEntriesNeverRemoved ==
    [][\A s \in DOMAIN mappingFile.map : s \in DOMAIN mappingFile'.map]_vars

\* All anchors of the first k listing pages, in page order.
RECURSIVE AnchorsUpTo(_)
AnchorsUpTo(k) == IF k = 0 THEN <<>> ELSE AnchorsUpTo(k - 1) \o catalog[k]

\* The paths of a sequence of anchors, each kept only where it first occurs.
RECURSIVE FirstOccurrences(_)
FirstOccurrences(hs) ==
    IF hs = <<>> THEN <<>>
    ELSE LET front == SubSeq(hs, 1, Len(hs) - 1)
             last == hs[Len(hs)].path
         IN IF \E j \in 1..Len(front) : front[j].path = last
              THEN FirstOccurrences(front)
              ELSE Append(FirstOccurrences(front), last)

\* C10: once the first page is extracted, the collected pack references are
\* the paths of the pages visited so far, in page order, each kept only at
\* its first occurrence; when the traversal ends at a page without a next
\* control, that is the whole catalogue.
C10_CrawlUniqueInDiscoveryOrder ==
    /\ cpc \in {"check", "nav", "end"} =>
          allPackUrls = FirstOccurrences(AnchorsUpTo(cpage))
    /\ (cpc = "end" /\ cpage = Len(catalog)) =>
          /\ allPackUrls = FirstOccurrences(AnchorsUpTo(Len(catalog)))
          /\ \A i, j \in 1..Len(allPackUrls) :
                allPackUrls[i] = allPackUrls[j] => i = j

\* C10 witness: pages of 2, 3 and 1 distinct packs, no next control on page 3,
\* traversed to the end, with 6 references collected.
C10_Witness ==
    /\ cpc = "end"
    /\ catalog = <<<<H(1), H(2)>>, <<H(3), H(4), H(5)>>, <<H(6)>>>>
    /\ cpage = 3
    /\ Len(allPackUrls) = 6

\* C11: the traversal of the pack listing ends and control reaches the pack
\* loop, and every traversal of the pages of a pack ends and control reaches
\* the pack's item loop, on every listing whose last page has no enabled next
\* control and whatever clicks or navigation waits fail on the way.
C11_PaginationTerminates ==
    /\ <>(cpc = "packs")
    /\ [](cpc \in {"packcheck", "packnav"} => <>(cpc = "items"))

\* C11 witness: the listing has a second page, yet the traversal ended on the
\* first one (the click or the navigation wait failed) and the pack loop began.
C11_Witness ==
    /\ cpc = "packs" /\ packIdx = 1
    /\ cpage = 1 /\ Len(catalog) = 2

\* C12: after a navigation wait of the listing traversal has failed, the
\* result still holds the references of every page visited before, and when
\* the pack loop has ended each of them was processed; a failed navigation
\* wait inside a pack leaves the pack's collected items as they were.
C12_NavigationFailureKeepsPartialResults ==
    /\ [](navFailed =>
            /\ allPackUrls = FirstOccurrences(AnchorsUpTo(cpage))
            /\ (cpc = "fin" => packsVisited = allPackUrls))
    /\ [][(cpc = "packnav" /\ cpc' = "items") =>
              packItemUrls' = packItemUrls]_vars

\* C12 witness: the navigation wait failed on page 1 of a two-page listing
\* and the two packs of page 1 were both processed.
C12_Witness ==
    /\ cpc = "fin" /\ navFailed
    /\ Len(catalog) = 2 /\ cpage = 1
    /\ Len(allPackUrls) = 2 /\ Len(packsVisited) = 2

\* The item anchors any of the four extraction heuristics finds on a page.
ItemAnchors(page) ==
    {h \in UNION {{q[i] : i \in DOMAIN q} :
                     q \in {page.direct, page.comp, page.cards, page.tags}} :
        h.path[1] = "/item/"}

\* C13: the item references extracted from the first page of a pack are the
\* paths of the item anchors found by the four heuristics, and no path is
\* returned twice.
C13_ExtractionUnionDedupByPath ==
    (cpc = "packcheck" /\ packCurrentPage = 1) =>
        /\ {packItemUrls[i] : i \in DOMAIN packItemUrls}
              = {h.path : h \in ItemAnchors(packPage)}
        /\ \A i, j \in DOMAIN packItemUrls :
              packItemUrls[i] = packItemUrls[j] => i = j

\* C14: when the pack loop has ended, every collected pack was navigated to
\* exactly once, in order, whichever packs failed; and when the item loop of a
\* pack has ended, every item of the pack was handed to the downloader exactly
\* once, in order, whichever downloads failed.
C14_FailuresIsolated ==
    /\ cpc = "fin" => packsVisited = allPackUrls
    /\ cpc \in {"packs", "fin"} => itemsTried = packItemUrls

\* C14 witness: the first of two packs failed, the second was processed, and
\* in it the download of item a failed while that of item b succeeded.
C14_Witness ==
    /\ cpc = "fin" /\ packFailedAt = 1 /\ Len(allPackUrls) = 2
    /\ SlugA \in allItems /\ FindName(SlugA) \notin files
    /\ FindName(SlugB) \in files

\* C15: a run never ends with its browsing session open, and a session that
\* is open is eventually closed, on every path: the loops running to their
\* end, an exception before the loops, an exception after them.
C15_BrowserAlwaysReleased ==
    /\ [](pc = "done" => browser = "closed")
    /\ [](browser = "open" => <>(browser = "closed"))

\* C15 witness: the scraper's loops ended, the write of the mapping file threw
\* (no mapping file exists), and the session is closed.
C15_Witness ==
    /\ script = "scraper" /\ pc = "done" /\ idx > Len(items)
    /\ ~mappingFile.exists /\ browser = "closed"

\* C16: at every point of a first run, every item whose file was written has
\* its entry in the mapping file on disk, unless it is the item the loop is
\* processing or one whose download call has not yet returned.
C16_MappingOnDiskAfterEachStore ==
    run = 1 =>
        \A st \in stored :
            \/ st.slug \in DOMAIN mappingFile.map
            \/ idx <= Len(items) /\ pc # "loop" /\ Slug(idx) = st.slug
            \/ \E d \in inflight : Slug(d.lst) = st.slug

C18_AssetFileImmutable ==
    [][\A s \in Slugs :
          FilesOf(s) # {} =>
              \A n \in files' \ files :
                  n # FindName(s) /\ \A id \in Ids : n # GlbName(s, id)]_vars

\* C19: a binary fetch or a file write that a listener started for an item is
\* in progress only while that item is the one being processed and its
\* listener is registered.
C19_FetchBlocksWorkerPath ==
    \A d \in inflight :
        d.stage \in {"fetch", "wmap"} =>
            /\ d.lst = idx /\ pc # "loop"
            /\ d.lst \in listeners

\* C20: in the direct downloader no two updates of the mapping file are under
\* way at once, and when the run has ended and every call has returned the
\* mapping file has an entry for every slug whose file was written.
C20_SingleWriterNoLostUpdate ==
    script = "direct" =>
        /\ Cardinality({d \in inflight : d.stage = "wmap"}) <= 1
        /\ (pc = "done" /\ inflight = {}) =>
              \A st \in stored : st.slug \in DOMAIN mappingFile.map

\* C21: every file the item finder writes is placed in the directory that
\* main created for the pack being processed (an existing directory under
\* the download root, not the root itself).
C21_FileInsideCollectionDirectory ==
    [][\A p \in placed' \ placed :
          /\ p.dir = packFolder
          /\ p.dir \in dirs'
          /\ p.dir # <<>>]_vars

\* C29: within the item loop of a pack no item path is handed to the resolver
\* more than once.
C29_ItemConsumedOnce ==
    \A i, j \in DOMAIN itemsTried : itemsTried[i] = itemsTried[j] => i = j

\* The slug of item i occurs once in the item list.
UniqueSlug(i) == \A j \in DOMAIN items : items[j] = items[i] => j = i

\* C22: an item whose resolution ended as TimedOut (the navigation itself
\* timed out) or NoMatch (navigation completed, no identifier found) has no
\* file and no mapping entry under its slug (first run, slug listed once).
C22_FailedItemLeavesNothing ==
    \A i \in DOMAIN outcome :
        (run = 1 /\ UniqueSlug(i) /\ outcome[i] \in {"TimedOut", "NoMatch"})
            => /\ FilesOf(Slug(i)) = {}
               /\ Slug(i) \notin DOMAIN slugToUuidMap
               /\ Slug(i) \notin DOMAIN mappingFile.map

\* The download call of the main path (not of a listener) that is in flight.
MainDownloads(fl) == {d \in fl : d.rid = MainCall}

\* C23: when the URL read after the redirect exposes an identifier, the main
\* path fetches the resolution endpoint with that identifier, whether or not
\* the listener fired; when the fetched body has a signed URL the download is
\* issued for the current item under that identifier, and the file the
\* download writes is named <slug>__<that identifier>.glb.
C23_SecondaryResolution ==
    /\ [][(script = "direct" /\ pc = "wait" /\ pc' # pc
              /\ UrlMatch(pageUrl) # NoId)
            => (pc' = "sec" /\ sec' = UrlMatch(pageUrl))]_vars
    /\ [][(script = "direct" /\ pc = "sec" /\ pc' = "dl")
            => /\ Fetch(idx, MainCall, sec) \in fetches'
               /\ \E d \in MainDownloads(inflight') :
                     /\ d.lst = idx /\ d.id = sec
                     /\ d.stage = "fetch" /\ HasSignedUrl(d)]_vars
    /\ [][(script = "direct" /\ pc = "sec" /\ pc' = "loop")
            => (MainDownloads(inflight') = {} /\ fetches' = fetches)]_vars
    /\ [][\A d \in MainDownloads(inflight) :
              (d.stage = "fetch" /\ d \notin inflight' /\ files' # files)
                  => files' = files \cup {GlbName(Slug(idx), sec)}]_vars

\* The listener never fired (no response at all), the URL exposed identifier
\* 1, and the first item's file was written under it.
C23_Witness ==
    /\ script = "direct" /\ nresp = 0 /\ idx = 1 /\ pc = "dl"
    /\ pageUrl = DesignUrl(<<"1">>)
    /\ files = {GlbName(Slug(1), <<"1">>)}

\* C24: the page content is scanned only when the URL read after the redirect
\* exposes no identifier; a token found by the scan is the identifier the
\* endpoint fetch and the download are then made with; when the scan finds
\* none the item ends with no fetch and no download by the main path.
C24_LastResortScan ==
    /\ []((script = "direct" /\ pc = "scan") => UrlMatch(pageUrl) = NoId)
    /\ [][(script = "direct" /\ pc = "scan" /\ pc' # pc)
            => \/ /\ pc' = "sec" /\ sec' \in Ids
                  /\ idx' = idx /\ fetches' = fetches
               \/ /\ pc' = "loop" /\ idx' = idx + 1
                  /\ fetches' = fetches /\ files' = files
                  /\ MainDownloads(inflight') = {}]_vars
    /\ [][(script = "direct" /\ pc = "sec" /\ pc' = "dl"
              /\ UrlMatch(pageUrl) = NoId)
            => \E d \in MainDownloads(inflight') :
                  d.lst = idx /\ d.id = sec /\ sec' = sec]_vars

\* The redirect ended on a URL without identifier, no response reached the
\* listener, and the token of the scan named the file.
C24_Witness ==
    /\ script = "direct" /\ nresp = 0 /\ idx = 1 /\ pc = "dl"
    /\ pageUrl = LoginUrl
    /\ files = {GlbName(Slug(1), <<"2">>)}

\* The step parses the body of the response handler h was called with (the
\* first parse for its slug).
Parses(h) ==
    /\ h.stage = "json" /\ h \notin inflight'
    /\ Slug(h.lst) \notin handled /\ Slug(h.lst) \in handled'

\* The step captures the result of h: the download is issued by the handler
\* (scraper, direct) or the signed URL is kept for the main path (find).
Captures(h) ==
    IF script = "find"
      THEN presigned'[h.lst] = h.id
      ELSE Fetch(h.lst, h.rid, h.id) \in fetches'

\* C27: a handler that parses the body of a resolution response captures the
\* result exactly when the body has a non-null signed URL.
C27_CapturesExactlySignedBodies ==
    [][\A h \in inflight :
          Parses(h) => /\ HasSignedUrl(h) => Captures(h)
                       /\ ~HasSignedUrl(h)
                            => (fetches' = fetches /\ presigned' = presigned)]_vars

\* The resolution state the main path is in.
Phase(p) ==
    CASE p \in {"setup", "loop", "done"} -> "Idle"
      [] p \in {"on", "goto", "nav2"} -> "Navigating"
      [] p \in {"wait", "sec", "scan"} -> "AwaitingResolutionEvent"
      [] p = "dl" -> "Downloading"

\* The steps between resolution states.
PhaseSteps ==
    {<<"Idle", "Idle">>, <<"Idle", "Navigating">>,
     <<"Navigating", "Navigating">>, <<"Navigating", "AwaitingResolutionEvent">>,
     <<"Navigating", "Idle">>,
     <<"AwaitingResolutionEvent", "AwaitingResolutionEvent">>,
     <<"AwaitingResolutionEvent", "Idle">>,
     <<"AwaitingResolutionEvent", "Downloading">>,
     <<"Downloading", "Downloading">>, <<"Downloading", "Idle">>}

\* The resolution of the current item is under way.
Resolving == Phase(pc) \in {"Navigating", "AwaitingResolutionEvent"}

\* C30: the resolution of an item goes Idle -> Navigating ->
\* AwaitingResolutionEvent; it leaves these states only with its outcome set
\* (TimedOut from Navigating, Resolved or NoMatch from
\* AwaitingResolutionEvent); the outcome, once set, does not change during the
\* run; and a resolution under way eventually has its outcome.
C30_ResolutionReachesOneOutcome ==
    /\ [][\E t \in PhaseSteps : t[1] = Phase(pc) /\ t[2] = Phase(pc')]_vars
    /\ [][(Resolving /\ Phase(pc') \notin {"Navigating", "AwaitingResolutionEvent"})
            => /\ idx \notin DOMAIN outcome /\ idx \in DOMAIN outcome'
               /\ outcome'[idx] = IF Phase(pc) = "Navigating" THEN "TimedOut"
                                   ELSE outcome'[idx]
               /\ outcome'[idx] \in {"Resolved", "TimedOut", "NoMatch"}
               /\ Phase(pc) = "AwaitingResolutionEvent"
                     => outcome'[idx] \in {"Resolved", "NoMatch"}]_vars
    /\ [][run' = run => \A i \in DOMAIN outcome :
              i \in DOMAIN outcome' /\ outcome'[i] = outcome[i]]_vars
    /\ \A i \in 1..2 : (Resolving /\ idx = i) ~> (i \in DOMAIN outcome)

\* Two items were resolved in one run with different outcomes.
C30_Witness ==
    /\ pc = "done" /\ DOMAIN outcome = {1, 2}
    /\ outcome[1] = "TimedOut" /\ outcome[2] = "Resolved"

\* The slugs of the first of the three layers (state blob, anchors with a
\* slug= parameter, image src/alt) that yields at least one slug.
FirstLayer(d) ==
    LET blob == [k \in DOMAIN d.blob |-> SlugOrId(d.blob[k])]
        anchors == FilterBoolean([k \in DOMAIN d.createLinks |-> SlugParam(d.createLinks[k])])
        imgs == FilterBoolean([k \in DOMAIN d.images |-> ImageSlug(d.images[k])])
    IN  IF blob # <<>> THEN blob
        ELSE IF anchors # <<>> THEN anchors
        ELSE imgs

\* C25: the slugs extracted from a pack page are the output of the first
\* layer, in the order blob, anchors, images, that yields at least one slug.
C25_ThreeLayerFallback ==
    spc = "icons" => iconSlugs = FirstLayer(dom)

\* The trailing path segment of a url, the query string stripped.
TrailingSegment(url) == Pop(Split(Split(url, "?")[1], "/"))

\* C26: the identifier a handler takes from a response of the resolution
\* endpoint is the trailing path segment of its url without the query
\* string, also when the query string contains a '/'.
C26_IdentifierIsTrailingSegment ==
    \A c \in captured : c.iconUuid = TrailingSegment(c.url)

\* C28: when the extraction of the pack urls finds nothing the run goes on
\* with the empty set: every pack navigated to was found by the extraction.
C28_OnlyDiscoveredProcessed ==
    \A k \in DOMAIN packsDone : Includes(packUrls, packsDone[k])

\* C31: a handler's download (the file <slug>__<id>.glb, the entry slug -> id)
\* takes its id from a response produced by the navigation issued for that
\* slug, never from the response of another item's page.
C31_NoCrossItemMisattribution ==
    \A f \in fetches :
        f.src # MainCall => Slug(cause[f.src]) = Slug(f.item)

\* C32: in the find-items downloader, when the resolution of an item returns
\* and its listener has captured a signed URL, the binary fetch of that URL
\* has been issued, also when the wait for the redirect timed out.
C32_CaptureImpliesDownload ==
    [][(script = "find" /\ idx' # idx /\ idx \in DOMAIN presigned
          /\ presigned[idx] # NoId)
        => Fetch(idx, MainCall, presigned[idx]) \in fetches]_vars

====
